---------------------------- MODULE Spec2Model ----------------------------
(***************************************************************************)
(* EXIF IFD removal: the exif package (exif.Discard, parseImageHeaders,    *)
(* locateAPPMarker, removeFirstIFD) and the Mattermost plugin's            *)
(* DiscardExif with its own parseImageHeaders.                             *)
(*                                                                         *)
(* Buffers are sequences of bytes.  Go index i is TLA+ index i + 1; every  *)
(* offset below is a Go (0-based) offset.  A run-time panic (index or      *)
(* slice bounds out of range) is an explicit outcome.                      *)
(***************************************************************************)
EXTENDS Integers, Sequences, FiniteSets, TLC

(***************************************************************************)
(* Program constants.                                                      *)
(***************************************************************************)
markerPrefix == 255
appMarker == 225
tagSize == 12
ifdOffsetSize == 4
byteOrderSize == 2
dataLenghtSize == 2
tagCountLenSize == 2
exifIdent == <<69, 120, 105, 102, 0, 0>>
\* The TIFF header's fixed number, 0x002A.
tiffMagic == 42
\* The raw first-IFD offset that is translated to "right after the header".
headerOffset == 8

(***************************************************************************)
(* Error values.  nil is the empty string.                                 *)
(***************************************************************************)
NoErr == ""
ErrRead == "read"
ErrMarker == "Could not find image markers"
ErrDataLength == "find data length"
ErrIdent == "find EXIF ident code"
ErrByteOrderRead == "find TIFF header"
ErrByteOrder == "could not read byte order"
ErrMagic == "find TIFF header (fixed number)"
ErrOffset == "find the first IFD offset"
ErrTagCount == "read the tag count"

(***************************************************************************)
(* Go slices, fixed-width integers and encoding/binary.                    *)
(***************************************************************************)
\* s[lo:hi] for 0 <= lo <= hi <= len(s).
Slice(s, lo, hi) == SubSeq(s, lo + 1, hi)

Zeros(n) == [i \in 1..n |-> 0]

\* Conversion to int16: the low 16 bits, read as two's complement.
Int16(x) ==
  LET m == x % 65536
  IN  IF m >= 32768 THEN m - 65536 ELSE m

\* binary.ByteOrder.Uint16 / Uint32 on a 2- / 4-byte slice.
Uint16(order, b) ==
  IF order = "BigEndian" THEN b[1] * 256 + b[2] ELSE b[1] + b[2] * 256

\* TLC's integers are 32-bit.  A uint32 of 2^31 or more is stood for by
\* the largest numbers below 2^31 with the same low 16 bits: the code only
\* compares an offset with 8 and with buffer lengths and converts it to int16.
Uint32Of(b1, b2, b3, b4) ==
  IF b1 >= 128
  THEN 2147418112 + b3 * 256 + b4
  ELSE b1 * 16777216 + b2 * 65536 + b3 * 256 + b4

Uint32(order, b) ==
  IF order = "BigEndian"
  THEN Uint32Of(b[1], b[2], b[3], b[4])
  ELSE Uint32Of(b[4], b[3], b[2], b[1])

\* bytes.Buffer.Read(p) with len(p) = n > 0 on a buffer holding buf: io.EOF
\* when the buffer is empty, else copy(p, buf) and no error.  p starts zeroed,
\* so a short read leaves zeros behind the bytes copied.
BufferRead(buf, n) ==
  LET k == IF Len(buf) < n THEN Len(buf) ELSE n
  IN  [n    |-> k,
       eof  |-> Len(buf) = 0,
       p    |-> SubSeq(buf, 1, k) \o Zeros(n - k),
       rest |-> SubSeq(buf, k + 1, Len(buf))]

\* append(raw[:lo], src...) where raw has capacity capRaw: the result, and raw
\* as the caller sees it afterwards.  The result fits in raw's array when its
\* length is at most capRaw, and is then written over raw's bytes from lo on.
GoAppend_DropsLast(raw, capRaw, lo, src) ==
  LET res == Slice(raw, 0, lo - 1) \o src
  IN  [result |-> res, raw |-> raw]

GoAppend(raw, capRaw, lo, src) ==
  LET res == Slice(raw, 0, lo) \o src
  IN  [result |-> res,
       raw    |-> IF Len(res) > capRaw THEN raw
                  ELSE IF Len(res) >= Len(raw) THEN Slice(res, 0, Len(raw))
                  ELSE res \o Slice(raw, Len(res), Len(raw))]

(***************************************************************************)
(* package exif: locateAPPMarker, foundAPPMarker, parseImageHeaders.       *)
(***************************************************************************)
\* raw[offset] == markerPrefix && raw[offset+1] == appMarker; "panic" is an
\* index out of range.  The second byte is read only if the first matches.
foundAPPMarker(raw, offset) ==
  IF offset < 0 \/ offset >= Len(raw) THEN "panic"
  ELSE IF raw[offset + 1] # markerPrefix THEN "false"
  ELSE IF offset + 1 >= Len(raw) THEN "panic"
  ELSE IF raw[offset + 2] = appMarker THEN "true" ELSE "false"

\* The loop of locateAPPMarker from markerOffset on, while markerOffset < limit.
RECURSIVE scanAPPMarker(_, _, _)
scanAPPMarker(raw, markerOffset, limit) ==
  IF markerOffset < limit
  THEN LET f == foundAPPMarker(raw, markerOffset)
       IN  IF f = "panic"
           THEN [markerOffset |-> markerOffset, err |-> NoErr, panicked |-> TRUE]
           ELSE IF f = "true"
           THEN [markerOffset |-> markerOffset, err |-> NoErr, panicked |-> FALSE]
           ELSE scanAPPMarker(raw, markerOffset + 1, limit)
  ELSE [markerOffset |-> -1, err |-> ErrMarker, panicked |-> FALSE]

locateAPPMarker_ScanToEnd(raw) == scanAPPMarker(raw, 0, Len(raw))

locateAPPMarker(raw) == scanAPPMarker(raw, 0, Len(raw) - 1)

\* What parseImageHeaders returns: (ifdOffset, dataLength, byteOrder, err).
HeaderError(e) ==
  [ifdOffset |-> 0, dataLength |-> 0, byteOrder |-> "BigEndian",
   err |-> e, panicked |-> FALSE]

HeaderPanic ==
  [ifdOffset |-> 0, dataLength |-> 0, byteOrder |-> "BigEndian",
   err |-> NoErr, panicked |-> TRUE]

\* err != nil || n != size after a Read of size bytes.
readFailed_ErrOnly(r, size) == r.eof

readFailed(r, size) == r.eof \/ r.n # size

\* The byte order named by the two bytes bo, "" for neither "II" nor "MM".
byteOrderOf(bo) ==
  IF bo = <<73, 73>> THEN "LittleEndian"
  ELSE IF bo = <<77, 77>> THEN "BigEndian"
  ELSE ""

\* The header fields read from buff, the bytes after the APP1 marker.
\* translate: whether a raw offset of 8 becomes the read position (package
\* exif does this, the plugin does not); lenRaw is len(raw).  The identifier
\* is compared with exifIdent only inside the short-read branch.
parseAfterMarker(buff, lenRaw, translate) ==
  LET dl == BufferRead(buff, dataLenghtSize) IN
  IF readFailed(dl, dataLenghtSize) THEN HeaderError(ErrDataLength) ELSE
  LET dataLength == Uint16("BigEndian", dl.p) - 2
      id == BufferRead(dl.rest, Len(exifIdent))
  IN
  IF readFailed(id, Len(exifIdent)) /\ id.p # exifIdent
  THEN HeaderError(ErrIdent) ELSE
  LET bo == BufferRead(id.rest, byteOrderSize) IN
  IF readFailed(bo, byteOrderSize) THEN HeaderError(ErrByteOrderRead) ELSE
  LET byteOrder == byteOrderOf(bo.p) IN
  IF byteOrder = "" THEN HeaderError(ErrByteOrder) ELSE
  LET fx == BufferRead(bo.rest, 2) IN
  IF fx.eof \/ Uint16(byteOrder, fx.p) # tiffMagic THEN HeaderError(ErrMagic) ELSE
  LET io == BufferRead(fx.rest, ifdOffsetSize) IN
  IF readFailed(io, ifdOffsetSize) THEN HeaderError(ErrOffset) ELSE
  LET ifdOffset == Uint32(byteOrder, io.p) IN
  [ifdOffset  |-> IF translate /\ ifdOffset = headerOffset
                  THEN lenRaw - Len(io.rest) ELSE ifdOffset,
   dataLength |-> dataLength,
   byteOrder  |-> byteOrder,
   err        |-> NoErr,
   panicked   |-> FALSE]

\* parseImageHeaders without the translation of a raw offset of 8.
parseImageHeaders_NoTranslate(raw) ==
  LET loc == locateAPPMarker(raw) IN
  IF loc.panicked THEN HeaderPanic
  ELSE IF loc.err # NoErr THEN HeaderError(loc.err)
  ELSE IF loc.markerOffset + 2 > Len(raw) THEN HeaderPanic
  ELSE parseAfterMarker(Slice(raw, loc.markerOffset + 2, Len(raw)), Len(raw), FALSE)

parseImageHeaders(raw) ==
  LET loc == locateAPPMarker(raw) IN
  IF loc.panicked THEN HeaderPanic
  ELSE IF loc.err # NoErr THEN HeaderError(loc.err)
  ELSE IF loc.markerOffset + 2 > Len(raw) THEN HeaderPanic
  ELSE parseAfterMarker(Slice(raw, loc.markerOffset + 2, Len(raw)), Len(raw), TRUE)

(***************************************************************************)
(* package exif: removeFirstIFD.                                           *)
(***************************************************************************)
\* What removeFirstIFD returns, and raw as the caller sees it afterwards.
RemoveError(raw, e) ==
  [result |-> <<>>, hasResult |-> FALSE, err |-> e, panicked |-> FALSE,
   raw |-> raw, tagCount |-> 0, exifdEnd |-> 0]

RemovePanic(raw, tc, end) ==
  [result |-> <<>>, hasResult |-> FALSE, err |-> NoErr, panicked |-> TRUE,
   raw |-> raw, tagCount |-> tc, exifdEnd |-> end]

\* binary.Read of an int16 from the two bytes b.
readTagCount(byteOrder, b) == Int16(Uint16(byteOrder, b))

\* int16(ifdOffset) + tagCountLenSize + tagCount*tagSize + ifdOffsetSize, every
\* operation in int16.
ifdEndInt16_NoOffsetField(ifdOffset, tagCount) ==
  Int16(Int16(ifdOffset) + tagCountLenSize + Int16(tagCount * tagSize))

ifdEndInt16(ifdOffset, tagCount) ==
  Int16(Int16(Int16(Int16(ifdOffset) + tagCountLenSize)
              + Int16(tagCount * tagSize))
        + ifdOffsetSize)

\* append(raw[:ifdOffset], raw[exifdEnd:]...) once the tag count is read;
\* raw[exifdEnd:] panics for exifdEnd < 0 or exifdEnd > len(raw).
spliceIFD(raw, capRaw, ifdOffset, tagCount) ==
  LET exifdEnd == ifdEndInt16(ifdOffset, tagCount) IN
  IF ifdOffset > capRaw THEN RemovePanic(raw, tagCount, exifdEnd)
  ELSE IF exifdEnd < 0 \/ exifdEnd > Len(raw)
  THEN RemovePanic(raw, tagCount, exifdEnd)
  ELSE LET a == GoAppend(raw, capRaw, ifdOffset, Slice(raw, exifdEnd, Len(raw)))
       IN  [result |-> a.result, hasResult |-> TRUE, err |-> NoErr,
            panicked |-> FALSE, raw |-> a.raw,
            tagCount |-> tagCount, exifdEnd |-> exifdEnd]

removeFirstIFD(raw, capRaw, ifdOffset, byteOrder) ==
  IF ifdOffset > Len(raw) THEN RemovePanic(raw, 0, 0)
  ELSE IF Len(raw) - ifdOffset < tagCountLenSize
  THEN RemoveError(raw, ErrTagCount)
  ELSE spliceIFD(raw, capRaw, ifdOffset,
                 readTagCount(byteOrder, Slice(raw, ifdOffset, ifdOffset + 2)))

(***************************************************************************)
(* The plugin (package main): matchAPPMarker, parseImageHeaders and the    *)
(* tail of DiscardExif.                                                    *)
(***************************************************************************)
matchAPPMarker(raw, offset) == foundAPPMarker(raw, offset)

\* The plugin's loop: markerOffset where the loop stops, with or without a match.
RECURSIVE pluginScan(_, _)
pluginScan(raw, markerOffset) ==
  IF markerOffset < Len(raw) - 2
  THEN LET f == matchAPPMarker(raw, markerOffset)
       IN  IF f = "panic" THEN [markerOffset |-> markerOffset, panicked |-> TRUE]
           ELSE IF f = "true" THEN [markerOffset |-> markerOffset, panicked |-> FALSE]
           ELSE pluginScan(raw, markerOffset + 1)
  ELSE [markerOffset |-> markerOffset, panicked |-> FALSE]

pluginParseImageHeaders(raw) ==
  LET loc == pluginScan(raw, 0) IN
  IF loc.panicked THEN HeaderPanic
  ELSE IF loc.markerOffset = Len(raw) - 1 THEN HeaderError(ErrMarker)
  ELSE IF loc.markerOffset + 2 > Len(raw) THEN HeaderPanic
  ELSE parseAfterMarker(Slice(raw, loc.markerOffset + 2, Len(raw)), Len(raw), FALSE)

\* DiscardExif after the headers are parsed: Seek to ifdOffset (past the end is
\* no error), binary.Read of the tag count, then the append that is written.
pluginExcise(raw, capRaw, ifdOffset, byteOrder) ==
  IF ifdOffset + tagCountLenSize > Len(raw)
  THEN RemoveError(raw, ErrTagCount)
  ELSE spliceIFD(raw, capRaw, ifdOffset,
                 readTagCount(byteOrder, Slice(raw, ifdOffset, ifdOffset + 2)))

(***************************************************************************)
(* package exif: purgeDirs, the walk over the chain of next-IFD offsets.   *)
(***************************************************************************)
ErrEOF == "EOF"
ErrUnexpectedEOF == "unexpected EOF"
ErrOffsetPastEOF == "Offset past EOF"

\* ifdReader.Len(): the bytes not yet read.
readerLen(raw, pos) == IF pos >= Len(raw) THEN 0 ELSE Len(raw) - pos

\* The error of binary.Read of size bytes from a bytes.Reader over raw at
\* position pos: io.EOF when nothing is left, io.ErrUnexpectedEOF when fewer
\* than size bytes are.
readerErr(raw, pos, size) ==
  IF readerLen(raw, pos) = 0 THEN ErrEOF
  ELSE IF readerLen(raw, pos) < size THEN ErrUnexpectedEOF
  ELSE NoErr

\* Where a read that fails leaves the reader: past the bytes that were left.
readerEnd(raw, pos) == IF pos > Len(raw) THEN pos ELSE Len(raw)

\* ifdReader.Seek(delta, io.SeekCurrent), its error ignored: a negative
\* position is refused and the reader stays where it is.
seekCurrent(pos, delta) == IF pos + delta < 0 THEN pos ELSE pos + delta

\* What the reads of one iteration leave: the error of a read, or the tag
\* count, the next offset and whether the loop is left with break; pos is the
\* reader's position.
PurgeReadError(e, offset, tagCount, pos) ==
  [err |-> e, stop |-> FALSE, tagCount |-> tagCount, offset |-> offset,
   pos |-> pos]

\* if offset > uint32(len(raw)) || offset == 0 { break }
purgeNextRead(raw, tagCount, next, pos) ==
  [err |-> NoErr, stop |-> next > Len(raw) \/ next = 0, tagCount |-> tagCount,
   offset |-> next, pos |-> pos]

\* binary.Read(ifdReader, byteOrder, &offset) at position pos.
purgeReadOffset(raw, offset, byteOrder, tagCount, pos) ==
  IF readerErr(raw, pos, ifdOffsetSize) # NoErr
  THEN PurgeReadError(readerErr(raw, pos, ifdOffsetSize), offset, tagCount,
                      readerEnd(raw, pos))
  ELSE purgeNextRead(raw, tagCount,
                     Uint32(byteOrder, Slice(raw, pos, pos + ifdOffsetSize)),
                     pos + ifdOffsetSize)

\* The first half of an iteration: Seek(offset), read the tag count, skip
\* tagCount*tagSize bytes (an int16 product), read the next offset and test it.
purgeReadIfd(raw, offset, byteOrder) ==
  IF readerErr(raw, offset, tagCountLenSize) # NoErr
  THEN PurgeReadError(readerErr(raw, offset, tagCountLenSize), offset, 0,
                      readerEnd(raw, offset))
  ELSE purgeReadOffset(
         raw, offset, byteOrder,
         readTagCount(byteOrder, Slice(raw, offset, offset + tagCountLenSize)),
         seekCurrent(offset + tagCountLenSize,
                     Int16(readTagCount(byteOrder,
                                        Slice(raw, offset, offset + tagCountLenSize))
                           * tagSize)))

\* tagCountLenSize + tagCount*tagSize + ifdOffsetSize in int16.
numOfBytesDiscarded(tagCount) ==
  Int16(Int16(tagCountLenSize + Int16(tagCount * tagSize)) + ifdOffsetSize)

\* The second half: the filler written at int16(offset) and the tail put back.
\* result shares raw's array, so within capacity both appends write into raw.
\* make panics for a negative length, result[:ifdOffset] for a negative
\* ifdOffset, result[:exifdEnd] for a negative exifdEnd and raw[exifdEnd:] for
\* one past len(raw).
purgeFill(raw, capRaw, offset, tagCount) ==
  LET exifdEnd == ifdEndInt16(offset, tagCount)
      ifdOff == Int16(offset)
      n == numOfBytesDiscarded(tagCount)
  IN
  IF n < 0 \/ ifdOff < 0 \/ ifdOff > capRaw
  THEN [panicked |-> TRUE, raw |-> raw, result |-> <<>>, exifdEnd |-> exifdEnd]
  ELSE
  LET a == GoAppend(raw, capRaw, ifdOff, Zeros(n)) IN
  IF exifdEnd < 0 \/ exifdEnd > Len(raw)
  THEN [panicked |-> TRUE, raw |-> a.raw, result |-> <<>>, exifdEnd |-> exifdEnd]
  ELSE
  LET b == GoAppend(a.raw, capRaw, exifdEnd, Slice(a.raw, exifdEnd, Len(a.raw)))
  IN  [panicked |-> FALSE, raw |-> b.raw, result |-> b.result,
       exifdEnd |-> exifdEnd]

(***************************************************************************)
(* Bounds of the model and the inputs it is run on.                        *)
(***************************************************************************)
\* Bytes before the APP1 marker.
MaxLead == 2
\* Bytes between the TIFF header and the IFD.
MaxGap == 2
\* Tag entries actually present in an input's IFD.
MaxTags == 1
\* Bytes after the IFD.
MaxTail == 14
\* Length of the exhaustively enumerated short buffers.
MaxScanLen == 4
\* Calls of the transform in a row, each on what the one before wrote.
MaxRuns == 2
\* Spare capacity ioutil.ReadAll may leave behind the bytes read.
CapSlack == 512
\* IFD position of the large inputs: its end is the first past the int16 range.
BigOffset == 32750

Orders == {"BigEndian", "LittleEndian"}

OrderMark(order) ==
  IF order = "LittleEndian" THEN <<73, 73>>
  ELSE IF order = "BigEndian" THEN <<77, 77>>
  ELSE <<88, 88>>

Put16(order, x) ==
  IF order = "LittleEndian" THEN <<x % 256, (x \div 256) % 256>>
  ELSE <<(x \div 256) % 256, x % 256>>

Put32(order, x) ==
  IF order = "LittleEndian"
  THEN <<x % 256, (x \div 256) % 256, (x \div 65536) % 256, (x \div 16777216) % 256>>
  ELSE <<(x \div 16777216) % 256, (x \div 65536) % 256, (x \div 256) % 256, x % 256>>

TagBytes(n) == [i \in 1..(tagSize * n) |-> 16 + i]
GapBytes(n) == [i \in 1..n |-> 112 + i]
Filler(n) == [i \in 1..n |-> 85]

Tails ==
  { <<>>, <<255, 255>>, Zeros(MaxTail), [i \in 1..MaxTail |-> 160 + i] }

Idents == { exifIdent, <<69, 120, 105, 103, 0, 0>>, <<69, 120, 105, 102, 0, 1>> }

OffsetKinds == {"eight", "pos", "zero", "last", "len", "past"}

\* The marker, the segment length, the identifier and the TIFF header.
Header(lead, order, ident, magic, v) ==
  Zeros(lead) \o <<markerPrefix, appMarker, 0, 15>> \o ident \o OrderMark(order)
    \o Put16(order, magic) \o Put32(order, v)

\* An IFD: the tag count field, n tag entries and the next-IFD offset.
Ifd(order, tcField, n) ==
  Put16(order, tcField % 65536) \o TagBytes(n) \o <<0, 0, 0, 0>>

Fixture(lead, gap, order, ident, magic, kind, tcField, n, tail) ==
  LET ifd == Ifd(order, tcField, n)
      pos == lead + 18 + gap
      total == pos + Len(ifd) + Len(tail)
      v == CASE kind = "eight" -> 8
             [] kind = "pos" -> pos
             [] kind = "zero" -> 0
             [] kind = "last" -> total - 1
             [] kind = "len" -> total
             [] OTHER -> total + 1
  IN  Header(lead, order, ident, magic, v) \o GapBytes(gap) \o ifd \o tail

Prefixes(s) == { SubSeq(s, 1, k) : k \in 0..Len(s) }

\* Inputs with a sound header, over IFD positions, tag counts and tails.
IfdInputs ==
  { Fixture(lead, gap, order, exifIdent, tiffMagic, kind, tc, n, tail) :
      lead \in {0, MaxLead}, gap \in {0, MaxGap}, order \in Orders,
      kind \in OffsetKinds, tc \in (-2 .. MaxTags + 1), n \in 0..MaxTags,
      tail \in Tails }

\* Inputs over header contents, cut off at every length.
HeaderInputs ==
  UNION { Prefixes(Fixture(lead, 0, order, ident, magic, kind, 1, 1, <<255, 255>>)) :
            lead \in {0, MaxLead}, order \in Orders \cup {"XX"}, ident \in Idents,
            magic \in {tiffMagic, tiffMagic + 1}, kind \in {"eight", "pos"} }

\* Every buffer of at most MaxScanLen bytes over 00, FF and E1.
ShortInputs ==
  UNION { [1..n -> {0, markerPrefix, appMarker}] : n \in 0..MaxScanLen }

\* The reference fixture of the plugin's test, and the same with two more 00 bytes.
TestInput ==
  <<0, 0, 255, 225, 0, 15>> \o exifIdent \o <<77, 77, 0, 42, 0, 0, 0, 20, 0, 1>>
    \o Zeros(16) \o <<255, 255>>

ScenarioInput ==
  <<0, 0, 255, 225, 0, 15>> \o exifIdent \o <<77, 77, 0, 42, 0, 0, 0, 20, 0, 1>>
    \o Zeros(18) \o <<255, 255>>

\* Inputs whose IFD lies BigOffset bytes into the file.
BigInputs ==
  { Header(0, order, exifIdent, tiffMagic, BigOffset) \o Filler(BigOffset - 18)
      \o Ifd(order, 1, 1) \o <<255, 255>> : order \in Orders }

Inputs ==
  IfdInputs \cup HeaderInputs \cup ShortInputs \cup {TestInput, ScenarioInput}
    \cup BigInputs

(***************************************************************************)
(* The state: one call of the transform at a time.                         *)
(***************************************************************************)
VARIABLES
  entry,      \* "exif": exif.Discard; "plugin": the plugin's DiscardExif
  input,      \* the bytes the caller's reader holds
  raw,        \* the buffer ioutil.ReadAll returned
  capRaw,     \* its capacity
  pc,         \* "call", "read", "parsed", "removed", "done"
  stage,      \* the last step made: "", "read", "headers", "remove", "write"
  ifdOffset,  \* parseImageHeaders' results
  byteOrder,
  tagCount,   \* the tag count read and the end computed from it
  exifdEnd,
  result,     \* removeFirstIFD's result buffer
  err,        \* the error (rejection string) returned, NoErr for none
  panicked,   \* the call ended in a run-time panic
  output,     \* the sequence of Writes made on the output sink
  run,        \* 1 for the first call, 2 for the call on its output, ...
  prev,       \* marker position and IFD offset of the call before
  ifdReader   \* purgeDirs: the read position of its bytes.Reader over raw

vars ==
  <<entry, input, raw, capRaw, pc, stage, ifdOffset, byteOrder, tagCount,
    exifdEnd, result, err, panicked, output, run, prev, ifdReader>>

NoPrev == [ifdOffset |-> -1, input |-> <<>>]

Init ==
  /\ entry \in {"exif", "plugin"}
  /\ input \in Inputs
  /\ raw = <<>>
  /\ capRaw = 0
  /\ pc = "call"
  /\ stage = ""
  /\ ifdOffset = 0
  /\ byteOrder = "BigEndian"
  /\ tagCount = 0
  /\ exifdEnd = 0
  /\ result = <<>>
  /\ err = NoErr
  /\ panicked = FALSE
  /\ output = <<>>
  /\ run = 1
  /\ prev = NoPrev
  /\ ifdReader = 0

\* ioutil.ReadAll(file): the whole input, or a read error that ends the call.
ReadAll ==
  /\ pc = "call"
  /\ stage' = "read"
  /\ \/ /\ \E slack \in {0, CapSlack} : capRaw' = Len(input) + slack
        /\ raw' = input
        /\ pc' = "read"
        /\ err' = NoErr
     \/ /\ err' = ErrRead
        /\ pc' = "done"
        /\ UNCHANGED <<raw, capRaw>>
  /\ UNCHANGED <<entry, input, ifdOffset, byteOrder, tagCount, exifdEnd, result,
                 panicked, output, run, prev, ifdReader>>

\* The header step of either entry point, h being what parseImageHeaders returned.
HeadersParsed(h) ==
  /\ ifdOffset' = h.ifdOffset
  /\ byteOrder' = h.byteOrder
  /\ err' = h.err
  /\ panicked' = h.panicked
  /\ pc' = IF h.err # NoErr \/ h.panicked THEN "done" ELSE "parsed"
  /\ stage' = "headers"
  /\ UNCHANGED <<entry, input, raw, capRaw, tagCount, exifdEnd, result, output,
                 run, prev, ifdReader>>

\* exif.Discard: parseImageHeaders(raw), returning its error.
DiscardParse ==
  /\ pc = "read"
  /\ entry = "exif"
  /\ HeadersParsed(parseImageHeaders(raw))

\* DiscardRemove with the Write made before the error is looked at.
DiscardRemove_WriteBeforeCheck ==
  /\ pc = "parsed"
  /\ entry = "exif"
  /\ LET r == removeFirstIFD(raw, capRaw, ifdOffset, byteOrder)
     IN  /\ raw' = r.raw
         /\ result' = r.result
         /\ tagCount' = r.tagCount
         /\ exifdEnd' = r.exifdEnd
         /\ err' = r.err
         /\ panicked' = r.panicked
         /\ output' = IF r.panicked THEN output ELSE Append(output, r.result)
         /\ pc' = "done"
         /\ stage' = IF r.hasResult THEN "write" ELSE "remove"
  /\ UNCHANGED <<entry, input, capRaw, ifdOffset, byteOrder, run, prev,
                 ifdReader>>

\* exif.Discard: removeFirstIFD(raw, ifdOffset, byteOrder), returning its error.
DiscardRemove ==
  /\ pc = "parsed"
  /\ entry = "exif"
  /\ LET r == removeFirstIFD(raw, capRaw, ifdOffset, byteOrder)
     IN  /\ raw' = r.raw
         /\ result' = r.result
         /\ tagCount' = r.tagCount
         /\ exifdEnd' = r.exifdEnd
         /\ err' = r.err
         /\ panicked' = r.panicked
         /\ pc' = IF r.hasResult THEN "removed" ELSE "done"
         /\ stage' = "remove"
  /\ UNCHANGED <<entry, input, capRaw, ifdOffset, byteOrder, output, run, prev,
                 ifdReader>>

\* exif.Discard: output.Write(result) and return nil.
DiscardWrite ==
  /\ pc = "removed"
  /\ entry = "exif"
  /\ output' = Append(output, result)
  /\ pc' = "done"
  /\ stage' = "write"
  /\ UNCHANGED <<entry, input, raw, capRaw, ifdOffset, byteOrder, tagCount,
                 exifdEnd, result, err, panicked, run, prev, ifdReader>>

\* DiscardExif: p.parseImageHeaders(raw), returning the rejection string.
DiscardExifParse ==
  /\ pc = "read"
  /\ entry = "plugin"
  /\ HeadersParsed(pluginParseImageHeaders(raw))

\* DiscardExif: read the tag count and output.Write(append(...)).
DiscardExifExcise ==
  /\ pc = "parsed"
  /\ entry = "plugin"
  /\ LET r == pluginExcise(raw, capRaw, ifdOffset, byteOrder)
     IN  /\ raw' = r.raw
         /\ result' = r.result
         /\ tagCount' = r.tagCount
         /\ exifdEnd' = r.exifdEnd
         /\ err' = r.err
         /\ panicked' = r.panicked
         /\ output' = IF r.hasResult THEN Append(output, r.result) ELSE output
         /\ pc' = "done"
         /\ stage' = IF r.hasResult THEN "write" ELSE "remove"
  /\ UNCHANGED <<entry, input, capRaw, ifdOffset, byteOrder, run, prev,
                 ifdReader>>

Succeeded == pc = "done" /\ err = NoErr /\ ~panicked

\* The caller runs the transform again on the bytes the last call wrote.
Rerun ==
  /\ Succeeded
  /\ run < MaxRuns
  /\ Len(output) = 1
  /\ input' = output[1]
  /\ prev' = [ifdOffset |-> ifdOffset, input |-> input]
  /\ run' = run + 1
  /\ pc' = "call"
  /\ stage' = ""
  /\ raw' = <<>>
  /\ capRaw' = 0
  /\ ifdOffset' = 0
  /\ byteOrder' = "BigEndian"
  /\ tagCount' = 0
  /\ exifdEnd' = 0
  /\ result' = <<>>
  /\ output' = <<>>
  /\ UNCHANGED <<entry, err, panicked, ifdReader>>

Next ==
  \/ ReadAll
  \/ DiscardParse
  \/ DiscardRemove
  \/ DiscardWrite
  \/ DiscardExifParse
  \/ DiscardExifExcise
  \/ Rerun

Spec == Init /\ [][Next]_vars

(***************************************************************************)
(* purgeDirs called on its own: a buffer, a starting offset, a byte order. *)
(***************************************************************************)
\* First IFD position of the large chained buffers: the least offset whose
\* int16 conversion is no negative number and not the offset itself.
CycleOffset == 65536

\* Tag counts of a chain: none, one, -1, and the least whose 12-fold is a
\* negative int16 that leaves a filler of 2 bytes.
PurgeCounts == {0, 1, -1, 5461}

\* Two IFDs without tag entries, one behind the other, pad bytes in.
PurgeChain(order, pad, tc1, next1, tc2, next2, tail) ==
  Filler(pad) \o Put16(order, tc1 % 65536) \o Put32(order, next1)
    \o Put16(order, tc2 % 65536) \o Put32(order, next2) \o tail

\* Offsets a chain of total bytes is given: nowhere, the padding, either IFD,
\* inside an IFD, the last byte, the end and past the end.
PurgeOffsets(pad, total) ==
  {0, 1, pad, pad + 2, pad + 6, total - 1, total, total + 1}

\* The calls on the chains that end in tail: the first IFD with every tag
\* count and next offset, the second one ending the chain or pointing back
\* at the first.
ChainCallsOn(tail) ==
  LET total == MaxLead + 12 + Len(tail) IN
  { [raw |-> PurgeChain(order, MaxLead, tc1, next1, 0, next2, tail),
     ifdOffset |-> start, byteOrder |-> order] :
      order \in Orders, tc1 \in PurgeCounts,
      next1 \in PurgeOffsets(MaxLead, total),
      next2 \in {0, MaxLead},
      start \in {0, MaxLead, MaxLead + 6, total - 1, total} }

ChainCalls == ChainCallsOn(<<>>) \cup ChainCallsOn(Filler(MaxTail))

\* One IFD at position at whose next-IFD offset is its own position.
SelfChain(order, at) ==
  Zeros(at) \o Put16(order, 0) \o Put32(order, at) \o Filler(MaxTail)

BigCalls ==
  { [raw |-> SelfChain(order, at), ifdOffset |-> at, byteOrder |-> order] :
      order \in Orders, at \in {CycleOffset \div 2, CycleOffset} }

PurgeCalls == ChainCalls \cup BigCalls

PurgeInit ==
  /\ entry = "purge"
  /\ input = <<>>
  /\ \E c \in PurgeCalls :
       /\ raw = c.raw
       /\ ifdOffset = c.ifdOffset
       /\ byteOrder = c.byteOrder
  /\ \E slack \in {0, CapSlack} : capRaw = Len(raw) + slack
  /\ pc = "call"
  /\ stage = ""
  /\ tagCount = 0
  /\ exifdEnd = 0
  /\ result = <<>>
  /\ err = NoErr
  /\ panicked = FALSE
  /\ output = <<>>
  /\ run = 1
  /\ prev = NoPrev
  /\ ifdReader = 0

\* ifdReader := bytes.NewReader(raw); result := raw; offset = ifdOffset.
\* The local result is raw's own array at full length all through the loop:
\* the variable result holds what the call returns, once it returns.
PurgeEnter ==
  /\ entry = "purge"
  /\ pc = "call"
  /\ ifdReader' = 0
  /\ pc' = "loop"
  /\ stage' = "enter"
  /\ UNCHANGED <<entry, input, raw, capRaw, ifdOffset, byteOrder, tagCount,
                 exifdEnd, result, err, panicked, output, run, prev>>

\* The loop test and the reads of one iteration: return result when the offset
\* is 0 or the loop is left with break, return nil and the error of a read.
PurgeRead ==
  /\ entry = "purge"
  /\ pc = "loop"
  /\ stage' = "read"
  /\ IF ifdOffset = 0
     THEN /\ pc' = "done"
          /\ result' = raw
          /\ UNCHANGED <<ifdOffset, tagCount, ifdReader, err>>
     ELSE \E r \in {purgeReadIfd(raw, ifdOffset, byteOrder)} :
              /\ ifdOffset' = r.offset
              /\ tagCount' = r.tagCount
              /\ ifdReader' = r.pos
              /\ err' = r.err
              /\ result' = IF r.err = NoErr /\ r.stop THEN raw ELSE <<>>
              /\ pc' = IF r.err # NoErr \/ r.stop THEN "done" ELSE "fill"
  /\ UNCHANGED <<entry, input, raw, capRaw, byteOrder, exifdEnd, panicked,
                 output, run, prev>>

\* The rest of the iteration: the two appends and the test of ifdReader.Len().
PurgeFill ==
  /\ entry = "purge"
  /\ pc = "fill"
  /\ stage' = "fill"
  /\ \E f \in {purgeFill(raw, capRaw, ifdOffset, tagCount)} :
       \E past \in {~f.panicked /\ readerLen(f.raw, ifdReader) = 0} :
         /\ raw' = f.raw
         /\ exifdEnd' = f.exifdEnd
         /\ panicked' = f.panicked
         /\ err' = IF past THEN ErrOffsetPastEOF ELSE err
         /\ result' = <<>>
         /\ pc' = IF f.panicked \/ past THEN "done" ELSE "loop"
  /\ UNCHANGED <<entry, input, capRaw, ifdOffset, byteOrder, tagCount, output,
                 run, prev, ifdReader>>

PurgeNext ==
  \/ PurgeEnter
  \/ PurgeRead
  \/ PurgeFill

\* A call that has not returned goes on running.
PurgeSpec == PurgeInit /\ [][PurgeNext]_vars /\ WF_vars(PurgeNext)


(***************************************************************************)
(* What the properties below say about an input, read off its bytes.       *)
(***************************************************************************)
MarkerAt(b, i) ==
  /\ 0 <= i
  /\ i + 1 < Len(b)
  /\ b[i + 1] = markerPrefix
  /\ b[i + 2] = appMarker

HasMarker(b) == \E i \in 0..(Len(b) - 2) : MarkerAt(b, i)

\* The index of the first FF E1 pair of a buffer that has one.
FirstMarker(b) ==
  CHOOSE i \in 0..(Len(b) - 2) :
    MarkerAt(b, i) /\ \A j \in 0..(i - 1) : ~MarkerAt(b, j)

\* marker + length + identifier + byte order + magic + offset.
MinHeaderSize ==
  2 + dataLenghtSize + Len(exifIdent) + byteOrderSize + 2 + ifdOffsetSize

\* The header after the first marker is complete, with "MM" or "II" and 42.
SoundHeader(b) ==
  /\ HasMarker(b)
  /\ LET m == FirstMarker(b) IN
     /\ m + MinHeaderSize <= Len(b)
     /\ Slice(b, m + 4, m + 10) = exifIdent
     /\ byteOrderOf(Slice(b, m + 10, m + 12)) # ""
     /\ Uint16(byteOrderOf(Slice(b, m + 10, m + 12)), Slice(b, m + 12, m + 14))
          = tiffMagic

OrderIn(b) == byteOrderOf(Slice(b, FirstMarker(b) + 10, FirstMarker(b) + 12))

\* The value of the first-IFD offset field.
OffsetFieldIn(b) ==
  Uint32(OrderIn(b), Slice(b, FirstMarker(b) + 14, FirstMarker(b) + 18))

\* The tag count field at offset v, as a signed 16-bit number.
TagCountIn(b, order, v) ==
  LET u == Uint16(order, Slice(b, v, v + 2))
  IN  IF u >= 32768 THEN u - 65536 ELSE u

\* The end of the IFD at v, as a mathematical integer.
IfdEnd(v, tc) == v + 2 + tc * 12 + 4

\* A well-formed single-IFD input: a sound header whose offset field v # 8 is
\* the position of an IFD that lies behind the header and inside the input.
WellFormed(b) ==
  /\ SoundHeader(b)
  /\ LET v == OffsetFieldIn(b) IN
     /\ v # 8
     /\ v >= FirstMarker(b) + MinHeaderSize
     /\ v + 2 <= Len(b)
     /\ TagCountIn(b, OrderIn(b), v) >= 0
     /\ IfdEnd(v, TagCountIn(b, OrderIn(b), v)) <= Len(b)

\* The input without its IFD.
Excised(b) ==
  LET v == OffsetFieldIn(b)
  IN  Slice(b, 0, v) \o Slice(b, IfdEnd(v, TagCountIn(b, OrderIn(b), v)), Len(b))

\* The call has returned (or panicked) after reading its input.
Returned == pc = "done" /\ stage # "read"

HeaderErrors ==
  {ErrMarker, ErrDataLength, ErrIdent, ErrByteOrderRead, ErrByteOrder, ErrMagic,
   ErrOffset}

(***************************************************************************)
(* C1.  Every well-formed single-IFD input is excised by both entry        *)
(* points: the call succeeds and writes input[0:v] ++ input[ifdEnd:].      *)
(* The code computes the end in int16, so this fails once the IFD ends     *)
(* beyond 32767 (see C14).                                                 *)
(***************************************************************************)
C1_WellFormedExcised ==
  (Returned /\ WellFormed(input))
    => (Succeeded /\ output = <<Excised(input)>>)

\* The same for the inputs whose IFD ends inside the int16 range.
C1_WithinInt16 ==
  (Returned /\ WellFormed(input)
     /\ IfdEnd(OffsetFieldIn(input),
               TagCountIn(input, OrderIn(input), OffsetFieldIn(input))) <= 32767)
    => (Succeeded /\ output = <<Excised(input)>>)

(***************************************************************************)
(* C2.  The concrete scenario.  As stated: exif.Discard on the 42-byte     *)
(* input writes the 22-byte output ending 00 14 FF FF.                     *)
(***************************************************************************)
ScenarioOutput22 ==
  <<0, 0, 255, 225, 0, 15>> \o exifIdent \o <<77, 77, 0, 42, 0, 0, 0, 20>>
    \o <<255, 255>>

ScenarioOutput24 ==
  <<0, 0, 255, 225, 0, 15>> \o exifIdent \o <<77, 77, 0, 42, 0, 0, 0, 20>>
    \o <<0, 0, 255, 255>>

\* C2 as stated: the 42-byte input gives the 22-byte output.
C2_ScenarioAsStated ==
  (entry = "exif" /\ Returned /\ input = ScenarioInput)
    => (Succeeded /\ output = <<ScenarioOutput22>>)

\* C2, amended.  exif.Discard on the 42-byte input succeeds and writes the 24
\* bytes that keep the two 00 bytes behind the 18-byte IFD; the 22-byte output
\* is what the 40-byte reference fixture (sixteen 00 bytes) gives.
C2_ScenarioOutput ==
  /\ (entry = "exif" /\ Returned /\ input = ScenarioInput)
       => (Succeeded /\ output = <<ScenarioOutput24>>)
  /\ (entry = "exif" /\ Returned /\ input = TestInput)
       => (Succeeded /\ output = <<ScenarioOutput22>>)

C2_Witness ==
  /\ entry = "exif"
  /\ input = ScenarioInput
  /\ Succeeded
  /\ Len(output) = 1
  /\ Len(output[1]) = 24

(***************************************************************************)
(* C3.  As stated: a second exif.Discard, on what the first wrote, fails   *)
(* with the marker-not-found error.                                        *)
(***************************************************************************)
C3_SecondRunMarkerNotFound ==
  (entry = "exif" /\ run >= 2 /\ Returned) => err = ErrMarker

\* The call before removed an IFD that lay behind its TIFF header.
PrevBehindHeader ==
  /\ run >= 2
  /\ HasMarker(prev.input)
  /\ prev.ifdOffset >= FirstMarker(prev.input) + MinHeaderSize

\* C3, amended.  When the first exif.Discard succeeded on an IFD at or behind
\* the end of the TIFF header, what it wrote still holds the marker and the
\* header: the second run never reports marker-not-found, its
\* parseImageHeaders succeeds and returns the same IFD offset.
C3_SecondRunFindsHeader ==
  (entry = "exif" /\ PrevBehindHeader /\ stage \in {"headers", "remove", "write"})
    => /\ err \notin HeaderErrors
       /\ ifdOffset = prev.ifdOffset
       /\ HasMarker(input)
       /\ FirstMarker(input) = FirstMarker(prev.input)

C3_Witness ==
  /\ entry = "exif"
  /\ PrevBehindHeader
  /\ Succeeded
  /\ stage = "write"
  /\ ifdOffset = prev.ifdOffset

(***************************************************************************)
(* C4.  When the tag count read at an in-range ifdOffset puts the end of   *)
(* the IFD beyond the buffer, removeFirstIFD returns an error and no       *)
(* buffer, and does not panic.  The code has no such check.                *)
(***************************************************************************)
C4_OutOfBoundsIsError ==
  (/\ entry = "exif"
   /\ stage \in {"remove", "write"}
   /\ ifdOffset + 2 <= Len(input)
   /\ IfdEnd(ifdOffset, TagCountIn(input, byteOrder, ifdOffset)) > Len(input))
    => (pc = "done" /\ err # NoErr /\ ~panicked /\ result = <<>> /\ output = <<>>)

(***************************************************************************)
(* C5.  On every input shorter than 18 bytes the exif package's            *)
(* parseImageHeaders returns an error, and no index or slice leaves the    *)
(* buffer (no panic).                                                      *)
(***************************************************************************)
C5_ShortInputRejected ==
  (entry = "exif" /\ Len(input) < MinHeaderSize /\ stage \notin {"", "read"})
    => (stage = "headers" /\ pc = "done" /\ err \in HeaderErrors /\ ~panicked)

\* A 17-byte input that ends inside the offset field.
C5_Witness ==
  /\ entry = "exif"
  /\ Len(input) = MinHeaderSize - 1
  /\ MarkerAt(input, 0)
  /\ stage = "headers"
  /\ err = ErrOffset

(***************************************************************************)
(* C6.  On every buffer without an FF E1 pair locateAPPMarker returns the  *)
(* marker-not-found error and reads no index outside the buffer.           *)
(***************************************************************************)
C6_NoMarkerNotFound ==
  (entry = "exif" /\ ~HasMarker(input) /\ stage \notin {"", "read"})
    => (stage = "headers" /\ pc = "done" /\ err = ErrMarker /\ ~panicked)

\* A buffer without the pair whose last byte is FF.
C6_Witness ==
  /\ entry = "exif"
  /\ ~HasMarker(input)
  /\ Len(input) >= 1
  /\ input[Len(input)] = markerPrefix
  /\ stage = "headers"
  /\ err = ErrMarker

(***************************************************************************)
(* C7.  Two inputs that differ only in the byte order of the TIFF fields.  *)
(***************************************************************************)
OtherOrder(order) == IF order = "BigEndian" THEN "LittleEndian" ELSE "BigEndian"

\* Where the IFD of a sound input lies: the offset field, 8 meaning right
\* behind the header.
IfdPosition(b) ==
  IF OffsetFieldIn(b) = headerOffset
  THEN FirstMarker(b) + MinHeaderSize
  ELSE OffsetFieldIn(b)

\* The input has a twin: the tag count field lies behind the header.
HasTwin(b) ==
  /\ SoundHeader(b)
  /\ IfdPosition(b) >= FirstMarker(b) + MinHeaderSize
  /\ IfdPosition(b) + 2 <= Len(b)

\* The twin: the other byte-order mark, and the magic number, the offset and
\* the tag count with their bytes reversed.
Twin(b) ==
  LET m == FirstMarker(b)
      v == IfdPosition(b)
      mark == OrderMark(OtherOrder(OrderIn(b)))
  IN  [i \in 1..Len(b) |->
         LET j == i - 1 IN
         IF j \in {m + 10, m + 11} THEN mark[1]
         ELSE IF j \in (m + 12)..(m + 13) THEN b[(m + 12) + (m + 13) - j + 1]
         ELSE IF j \in (m + 14)..(m + 17) THEN b[(m + 14) + (m + 17) - j + 1]
         ELSE IF j \in v..(v + 1) THEN b[v + (v + 1) - j + 1]
         ELSE b[i]]

\* exif.Discard as one function of the bytes read.
exifDiscard(b, capB) ==
  LET h == parseImageHeaders(b) IN
  IF h.err # NoErr \/ h.panicked
  THEN [ifdOffset |-> h.ifdOffset, tagCount |-> 0, exifdEnd |-> 0,
        err |-> h.err, panicked |-> h.panicked, output |-> <<>>]
  ELSE LET r == removeFirstIFD(b, capB, h.ifdOffset, h.byteOrder)
       IN  [ifdOffset |-> h.ifdOffset, tagCount |-> r.tagCount,
            exifdEnd |-> r.exifdEnd, err |-> r.err, panicked |-> r.panicked,
            output |-> IF r.hasResult THEN <<r.result>> ELSE <<>>]

\* The twin's bytes outside the reversed fields, as left in an output.
SameRemoval(d) ==
  /\ d.ifdOffset = ifdOffset
  /\ d.tagCount = tagCount
  /\ d.exifdEnd = exifdEnd
  /\ d.err = err
  /\ d.panicked = panicked
  /\ Len(d.output) = Len(output)
  /\ Len(output) = 1 => Len(d.output[1]) = Len(output[1])

\* C7 as stated, for twins with an in-bounds IFD of tagCount >= 0 entries:
\* same offset, same tag count, and exif.Discard succeeds on both and removes
\* the same range.  The success fails with C14's int16 end.
C7_TwinsBothExcised ==
  (/\ entry = "exif"
   /\ Returned
   /\ HasTwin(input)
   /\ TagCountIn(input, OrderIn(input), IfdPosition(input)) >= 0
   /\ IfdEnd(IfdPosition(input),
             TagCountIn(input, OrderIn(input), IfdPosition(input))) <= Len(input))
    => LET d == exifDiscard(Twin(input), capRaw)
       IN  /\ SameRemoval(d)
           /\ Succeeded
           /\ d.err = NoErr /\ ~d.panicked
           /\ tagCount = TagCountIn(input, OrderIn(input), IfdPosition(input))
           /\ output = <<Slice(input, 0, ifdOffset)
                           \o Slice(input, IfdEnd(ifdOffset, tagCount), Len(input))>>

\* What does hold: on every pair of twins the two calls decode the same
\* offset and tag count and end the same way.
C7_TwinsAgree ==
  (entry = "exif" /\ Returned /\ HasTwin(input))
    => SameRemoval(exifDiscard(Twin(input), capRaw))

(***************************************************************************)
(* C8.  A failed call writes nothing: the output sink gets one Write, made *)
(* as the last step of a successful call, and none otherwise.              *)
(***************************************************************************)
C8_NoWriteOnFailure ==
  /\ Len(output) <= 1
  /\ pc # "done" => output = <<>>
  /\ (pc = "done" /\ (err # NoErr \/ panicked)) => output = <<>>
  /\ Succeeded => Len(output) = 1

\* A call that failed in removeFirstIFD, the headers already parsed.
C8_Witness ==
  /\ entry = "exif"
  /\ pc = "done"
  /\ stage = "remove"
  /\ err = ErrTagCount
  /\ output = <<>>

(***************************************************************************)
(* C9.  removeFirstIFD leaves the buffer passed to it as it was.  The code *)
(* appends to raw[:ifdOffset], which writes into raw's own array.          *)
(***************************************************************************)
C9_InputBufferUnchanged ==
  (entry = "exif" /\ stage \in {"remove", "write"}) => raw = input

(***************************************************************************)
(* C10.  An identifier that is fully present and differs from "Exif\0\0",  *)
(* or of which fewer than 6 bytes are present, makes parseImageHeaders     *)
(* return the identifier error.  The code compares only after a short read.*)
(***************************************************************************)
C10_IdentMismatchRejected ==
  (stage \notin {"", "read"} /\ HasMarker(input)
     /\ FirstMarker(input) + 4 <= Len(input)
     /\ Slice(input, FirstMarker(input) + 4,
              IF FirstMarker(input) + 10 <= Len(input)
              THEN FirstMarker(input) + 10 ELSE Len(input)) # exifIdent)
    => (stage = "headers" /\ pc = "done" /\ err = ErrIdent)

(***************************************************************************)
(* C11.  When fewer than 2 bytes are available at ifdOffset (ifdOffset is  *)
(* len(buffer) - 1, len(buffer) or beyond it), removeFirstIFD returns the  *)
(* tag-count read error and does not panic.  The code slices               *)
(* raw[ifdOffset:] first, which panics for ifdOffset > len(raw).           *)
(***************************************************************************)
C11_TruncatedIfdIsError ==
  (entry = "exif" /\ stage = "remove" /\ ifdOffset + 2 > Len(input))
    => (pc = "done" /\ err = ErrTagCount /\ ~panicked)

\* The part that holds: one byte or none at ifdOffset <= len(buffer).
C11_AtTheEnd ==
  (entry = "exif" /\ stage = "remove" /\ ifdOffset + 2 > Len(input)
     /\ ifdOffset <= Len(input))
    => (pc = "done" /\ err = ErrTagCount /\ ~panicked)

(***************************************************************************)
(* C12.  When the tag count read at ifdOffset is so negative that the end  *)
(* of the IFD lies before ifdOffset, removeFirstIFD fails with an error    *)
(* and returns no buffer.  The code has no such check: it panics for a     *)
(* negative end and otherwise returns a buffer longer than its input.      *)
(***************************************************************************)
C12_NegativeCountIsError ==
  (/\ entry = "exif"
   /\ stage \in {"remove", "write"}
   /\ ifdOffset + 2 <= Len(input)
   /\ IfdEnd(ifdOffset, TagCountIn(input, byteOrder, ifdOffset)) < ifdOffset)
    => (pc = "done" /\ err # NoErr /\ ~panicked /\ result = <<>> /\ output = <<>>)

\* The claim's "in particular": no buffer longer than the input is returned.
C12_NeverLonger ==
  (entry = "exif" /\ stage \in {"remove", "write"}) => Len(result) <= Len(input)

(***************************************************************************)
(* C13.  When package exif's parseImageHeaders succeeds on a buffer whose  *)
(* first FF E1 pair is at m, the offset it returns is m + 18 if the offset *)
(* field decodes to 8, and the decoded value itself otherwise.             *)
(***************************************************************************)
C13_EightIsTranslated ==
  (entry = "exif" /\ stage = "headers" /\ pc = "parsed")
    => /\ HasMarker(input)
       /\ FirstMarker(input) + MinHeaderSize <= Len(input)
       /\ byteOrder = OrderIn(input)
       /\ ifdOffset = IF OffsetFieldIn(input) = headerOffset
                      THEN FirstMarker(input) + MinHeaderSize
                      ELSE OffsetFieldIn(input)

\* A header behind leading bytes whose offset field is 8 has been parsed.
C13_Witness ==
  /\ entry = "exif"
  /\ stage = "headers"
  /\ pc = "parsed"
  /\ HasMarker(input)
  /\ FirstMarker(input) > 0
  /\ OffsetFieldIn(input) = headerOffset
  /\ ifdOffset = FirstMarker(input) + 18
  /\ ifdOffset # headerOffset

\* The other half: an offset field other than 8 has come back as it is.
C13_WitnessUnchanged ==
  /\ entry = "exif"
  /\ stage = "headers"
  /\ pc = "parsed"
  /\ HasMarker(input)
  /\ OffsetFieldIn(input) \notin {0, headerOffset}
  /\ ifdOffset = OffsetFieldIn(input)

(***************************************************************************)
(* C14.  The end of the removed range that removeFirstIFD and the plugin's *)
(* DiscardExif compute from the tag count they read is the mathematical    *)
(* ifdOffset + 2 + tagCount*12 + 4.  The code computes it in int16, so it  *)
(* wraps around once ifdOffset or the sum leaves -32768..32767.            *)
(***************************************************************************)
C14_EndIsMathematical ==
  (/\ stage \in {"remove", "write"}
   /\ ifdOffset + 2 <= Len(input)
   /\ err = NoErr)
    => exifdEnd = IfdEnd(ifdOffset, tagCount)

\* The same for package exif alone and for the plugin alone.
C14_EndIsMathematicalExif == entry = "exif" => C14_EndIsMathematical

C14_EndIsMathematicalPlugin == entry = "plugin" => C14_EndIsMathematical

(***************************************************************************)
(* C15.  On an upload without an FF E1 pair, the empty and the one-byte    *)
(* upload included, the plugin's DiscardExif returns a non-empty rejection *)
(* string, writes nothing and slices nothing out of bounds.  On the empty  *)
(* upload the scan ends at 0, which is not len(raw) - 1 = -1, and          *)
(* raw[markerOffset+2:] panics.                                            *)
(***************************************************************************)
C15_NoMarkerRejected ==
  (entry = "plugin" /\ ~HasMarker(input) /\ stage \notin {"", "read"})
    => (pc = "done" /\ err # NoErr /\ ~panicked /\ output = <<>>)

\* The part that holds: every non-empty upload without the pair is rejected.
C15_NonEmptyRejected ==
  (entry = "plugin" /\ ~HasMarker(input) /\ input # <<>>
     /\ stage \notin {"", "read"})
    => (pc = "done" /\ err # NoErr /\ ~panicked /\ output = <<>>)

(***************************************************************************)
(* C16.  purgeDirs terminates on every buffer and starting offset: the     *)
(* call always returns, by a next-IFD offset of 0, by one past the buffer  *)
(* or with an error, also when an offset points back at the same or an     *)
(* earlier IFD.  The filler is put at int16(offset), so a chain at 65536   *)
(* or behind it is never cleared and a cycle there is walked for ever.     *)
(***************************************************************************)
C16_PurgeTerminates == <>(entry = "purge" /\ pc = "done")

\* What holds: on a buffer that ends before CycleOffset \div 2 the call ends,
\* cycles included, because the filler clears the IFD the offset points at.
C16_ShortBuffersTerminate ==
  (entry = "purge" /\ Len(raw) < CycleOffset \div 2)
    ~> (pc = "done")

\* A cycle that is broken: the IFD at MaxLead named itself as the next one,
\* was cleared, and was then read again as an IFD with a next offset of 0.
C16_CycleBroken ==
  /\ entry = "purge"
  /\ pc = "done"
  /\ stage = "read"
  /\ err = NoErr
  /\ ifdOffset = 0
  /\ ifdReader = MaxLead + 6
  /\ exifdEnd = MaxLead + 6
  /\ result = raw
  /\ Slice(raw, MaxLead, MaxLead + 6) = Zeros(6)

=============================================================================
